---- MODULE Spec2Model ----
(***************************************************************************)
(* Model of the Article 12 Merkle ledger (gallows/ledger/merkle_ledger.py): *)
(* one ComplianceLedger with its MerkleTree, driven by                      *)
(* record_compliance_event, finalize_block, get_compliance_certificate,     *)
(* MerkleTree.generate_proof and MerkleTree.verify_proof.                   *)
(*                                                                         *)
(* Strings and digests are finite sequences of integer tokens.  SHA-256 is  *)
(* modelled as an injective function: the digest of a string is that string *)
(* between the two bracket tokens LB and RB, so that two digests are equal  *)
(* exactly when their preimages are, and the concatenation of two digests   *)
(* determines both of them.                                                 *)
(***************************************************************************)
EXTENDS Integers, Sequences, FiniteSets, TLC

\* ---------------------------------------------------------------- bounds
MaxEvents == 3
MaxClock == 0
MaxCertEvents == 5
MaxThreads == 2
MaxRequests == 3
MaxLeaves == 4

\* ---------------------------------------------------------------- tokens
\* (2 and 3 are kept for the 0x00 and 0x01 tags of tagged hashing)
LB == 0
RB == 1
Comma == 4
Hex16 == 5
DigestHexLen == 64

\* Python's None, as a value distinct from every string and every digest.
None == <<-1>>
EmptyStr == <<>>
NoneStr == "<None>"
\* a key that a dict does not hold
Missing == <<-2>>

StrTok(s) ==
    CASE s = "" -> <<>>
      [] s = "empty" -> <<10>>
      [] s = "empty_ledger" -> <<11>>
      [] s = "PENDING" -> <<12>>
      [] s = "PASS" -> <<13>>
      [] s = "FAIL" -> <<14>>
      [] s = "WARNING" -> <<15>>
      [] s = "HIGH_RISK" -> <<16>>
      [] s = "MEDIUM_RISK" -> <<17>>
      [] s = "LOW_RISK" -> <<18>>
      [] s = "gpt-4" -> <<20>>
      [] s = "claude-3" -> <<21>>
      [] s = "gemini-pro" -> <<22>>
      [] s = "user: calculate risk" -> <<30>>
      [] s = "risk: 0.23" -> <<31>>
      [] s = "user: approve loan" -> <<32>>
      [] s = "decision: approved" -> <<33>>
      [] s = "user: diagnose" -> <<34>>
      [] s = "diagnosis: flu" -> <<35>>
      [] s = "payload sharing a digest prefix" -> <<36>>
      [] s = "forged" -> <<40>>
      [] s = "credit scoring" -> <<41>>
      [] s = "production" -> <<42>>
      [] s = "human-in-the-loop" -> <<43>>
      [] s = NoneStr -> <<6>>
      [] OTHER -> <<99>>

IntTok(n) == <<100 + n>>

\* hashlib.sha256(x).hexdigest()
Sha256(x) == <<LB>> \o x \o <<RB>>

\* a value produced by Sha256
IsDigest(h) == Len(h) >= 2 /\ h[1] = LB /\ h[Len(h)] = RB

\* len() of a Python string holding a digest, the empty string, or anything else
HexLen(h) == IF IsDigest(h) THEN DigestHexLen ELSE Len(h)

\* The first 16 hex characters of a digest do not determine its preimage: the
\* digest of "payload sharing a digest prefix" starts with the same 16
\* characters as the digest of "user: calculate risk".
First16(t) == IF t = 36 THEN 30 ELSE t

\* hexdigest()[:16]
Truncate16(h) == <<Hex16>> \o [k \in 1..(Len(h) - 2) |-> First16(h[k + 1])]

\* ---------------------------------------------------------------- Article12Event
to_ordered_dict(e) ==
    [event_id |-> e.event_id,
     timestamp |-> e.timestamp,
     model_id |-> e.model_id,
     input_hash |-> e.input_hash,
     output_hash |-> e.output_hash,
     compliance_status |-> e.compliance_status,
     risk_level |-> e.risk_level,
     article_reference |-> e.article_reference,
     system_purpose |-> e.system_purpose,
     deployment_context |-> e.deployment_context,
     oversight_mechanism |->
        IF e.oversight_mechanism = NoneStr THEN "" ELSE e.oversight_mechanism]

\* json.dumps of a dict from which deployment_context was left out
JsonDumps_no_context(d) ==
    IntTok(d.event_id) \o <<Comma>> \o IntTok(d.timestamp) \o <<Comma>> \o
    StrTok(d.model_id) \o <<Comma>> \o d.input_hash \o <<Comma>> \o
    d.output_hash \o <<Comma>> \o StrTok(d.compliance_status) \o <<Comma>> \o
    StrTok(d.risk_level) \o <<Comma>> \o IntTok(d.article_reference) \o <<Comma>> \o
    StrTok(d.system_purpose) \o <<Comma>> \o StrTok(d.oversight_mechanism)

\* json.dumps(d, separators=(',', ':')) of the ordered dict: the eleven values
\* in the fixed key order, separated by commas
JsonDumps(d) ==
    IntTok(d.event_id) \o <<Comma>> \o IntTok(d.timestamp) \o <<Comma>> \o
    StrTok(d.model_id) \o <<Comma>> \o d.input_hash \o <<Comma>> \o
    d.output_hash \o <<Comma>> \o StrTok(d.compliance_status) \o <<Comma>> \o
    StrTok(d.risk_level) \o <<Comma>> \o IntTok(d.article_reference) \o <<Comma>> \o
    StrTok(d.system_purpose) \o <<Comma>> \o StrTok(d.deployment_context) \o
    <<Comma>> \o StrTok(d.oversight_mechanism)

\* compute_event_hash over the fields as they are, an absent
\* oversight_mechanism not replaced by the empty string
event_hash_of_raw_fields(e) == Sha256(JsonDumps(e))

compute_event_hash(e) == Sha256(JsonDumps(to_ordered_dict(e)))

\* ---------------------------------------------------------------- MerkleNode
\* MerkleNode(None, None, value).hash
LeafNodeHash(value) == value

\* MerkleNode(left, right, "").hash
ParentNodeHash(left, right) == Sha256(left \o right)

\* ---------------------------------------------------------------- MerkleTree
RECURSIVE NextPower(_, _)
NextPower(power, n) == IF power < n THEN NextPower(power * 2, n) ELSE power

\* _pad_to_power_of_two padding with the first leaf instead of the last
pad_with_first_leaf(lv) ==
    IF Len(lv) = 0
    THEN <<Sha256(StrTok("empty"))>>
    ELSE LET n == Len(lv)
             power == NextPower(1, n)
         IN  lv \o [k \in 1..(power - n) |-> lv[1]]

\* _pad_to_power_of_two padding with a synthetic leaf instead of the last leaf
pad_with_synthetic_leaf(lv) ==
    IF Len(lv) = 0
    THEN <<Sha256(StrTok("empty"))>>
    ELSE LET n == Len(lv)
             power == NextPower(1, n)
         IN  lv \o [k \in 1..(power - n) |-> Sha256(StrTok("empty"))]

_pad_to_power_of_two(lv) ==
    IF Len(lv) = 0
    THEN <<Sha256(StrTok("empty"))>>
    ELSE LET n == Len(lv)
             power == NextPower(1, n)
         IN  lv \o [k \in 1..(power - n) |-> lv[n]]

NextLevel(current_level) ==
    [k \in 1..((Len(current_level) + 1) \div 2) |->
        LET left == current_level[2 * k - 1]
            right == IF 2 * k <= Len(current_level)
                     THEN current_level[2 * k]
                     ELSE current_level[2 * k - 1]
        IN  ParentNodeHash(left, right)]

RECURSIVE BuildLevels(_, _)
BuildLevels(current_level, all_nodes) ==
    IF Len(current_level) > 1
    THEN LET next_level == NextLevel(current_level)
         IN  BuildLevels(next_level, all_nodes \o next_level)
    ELSE all_nodes

\* the hashes of the nodes of _build_tree's result, in list order
_build_tree(lv) ==
    LET current_level == [k \in 1..Len(lv) |-> LeafNodeHash(lv[k])]
    IN  BuildLevels(current_level, current_level)

RECURSIVE BitLength(_)
BitLength(n) == IF n = 0 THEN 0 ELSE 1 + BitLength(n \div 2)

TreeHeightOf(padded_leaves) == BitLength(Len(padded_leaves))

\* build without the early return for an empty leaf list
build_padding_empty(t) ==
    LET padded_leaves == _pad_to_power_of_two(t.leaves)
        all_nodes == _build_tree(padded_leaves)
    IN  [t EXCEPT !.nodes = all_nodes,
                  !.root = IF Len(all_nodes) > 0
                           THEN all_nodes[Len(all_nodes)] ELSE EmptyStr,
                  !.tree_height = TreeHeightOf(padded_leaves)]

\* build adding the new height to the stored one instead of replacing it
build_accumulating(t) ==
    IF Len(t.leaves) = 0
    THEN [t EXCEPT !.root = Sha256(StrTok("empty_ledger"))]
    ELSE LET padded_leaves == _pad_to_power_of_two(t.leaves)
             all_nodes == _build_tree(padded_leaves)
         IN  [t EXCEPT !.nodes = all_nodes,
                       !.root = IF Len(all_nodes) > 0
                                THEN all_nodes[Len(all_nodes)] ELSE EmptyStr,
                       !.tree_height = t.tree_height + TreeHeightOf(padded_leaves)]

\* build over the leaves as they are, without padding
build_unpadded(t) ==
    IF Len(t.leaves) = 0
    THEN [t EXCEPT !.root = Sha256(StrTok("empty_ledger"))]
    ELSE LET padded_leaves == t.leaves
             all_nodes == _build_tree(padded_leaves)
         IN  [t EXCEPT !.nodes = all_nodes,
                       !.root = IF Len(all_nodes) > 0
                                THEN all_nodes[Len(all_nodes)] ELSE EmptyStr,
                       !.tree_height = TreeHeightOf(padded_leaves)]

\* MerkleTree.build on a tree [leaves, nodes, root, tree_height]: the tree after the call
build(t) ==
    IF Len(t.leaves) = 0
    THEN [t EXCEPT !.root = Sha256(StrTok("empty_ledger"))]
    ELSE LET padded_leaves == _pad_to_power_of_two(t.leaves)
             all_nodes == _build_tree(padded_leaves)
         IN  [t EXCEPT !.nodes = all_nodes,
                       !.root = IF Len(all_nodes) > 0
                                THEN all_nodes[Len(all_nodes)] ELSE EmptyStr,
                       !.tree_height = TreeHeightOf(padded_leaves)]

\* Python truthiness of MerkleTree.root
Truthy(r) == r # None /\ r # EmptyStr

\* ---------------------------------------------------------------- state
VARIABLES
    events,        \* ComplianceLedger.events
    leaves,        \* MerkleTree.leaves
    nodes,         \* MerkleTree.nodes (the hash of each node)
    root,          \* MerkleTree.root
    tree_height,   \* MerkleTree.tree_height
    uuid_counter,  \* number of uuid4() event ids drawn so far
    clock,         \* datetime.utcnow()
    lastOp,        \* the call that returned last
    ret_root,      \* value returned by finalize_block
    cert,          \* value returned by get_compliance_certificate
    proof,         \* value returned by generate_proof / argument of verify_proof
    verdict,       \* value returned by verify_proof
    tampered,      \* how the argument of verify_proof differs from the generated proof
    error,         \* exception raised by the last call ("" when it returned)
    last_finalize  \* history: finalize_block calls since the last append (0, 1, or 2 for
                   \* two or more), and the root and height the last of them left

\* api/server.py
VARIABLES
    MODE,            \* CONFIG.MODE
    ledgers,         \* ledgers: chain_id -> ledger
    red_list,        \* red_list
    judgments,       \* judgments
    response,        \* value returned by the last handler
    verify_requests  \* history: the chain_id of each /api/v1/verify request, in order

\* mpc/protocol.py
VARIABLES
    threshold,   \* MPCProtocol.threshold
    mpc_nodes,   \* MPCProtocol.nodes, in insertion order: [node_id, status]
    mpc_result   \* value returned by simulate_verification

\* ComplianceLedger.export_audit_trail
VARIABLES
    audit   \* value returned by export_audit_trail

ledgerVars == <<events, leaves, nodes, root, tree_height, uuid_counter, clock, lastOp,
                ret_root, cert, proof, verdict, tampered, error, last_finalize>>

serverVars == <<MODE, ledgers, red_list, judgments, response, verify_requests>>

mpcVars == <<threshold, mpc_nodes, mpc_result>>

vars == <<ledgerVars, serverVars, mpcVars, audit>>

Tree == [leaves |-> leaves, nodes |-> nodes, root |-> root, tree_height |-> tree_height]

\* arguments of record_compliance_event
Requests ==
    { [model_id |-> "gpt-4", input_data |-> "user: calculate risk",
       output_data |-> "risk: 0.23", compliance_status |-> "PASS",
       risk_level |-> "HIGH_RISK", article_reference |-> 12],
      [model_id |-> "claude-3", input_data |-> "user: approve loan",
       output_data |-> "decision: approved", compliance_status |-> "FAIL",
       risk_level |-> "HIGH_RISK", article_reference |-> 12],
      [model_id |-> "gemini-pro", input_data |-> "user: diagnose",
       output_data |-> "diagnosis: flu", compliance_status |-> "WARNING",
       risk_level |-> "HIGH_RISK", article_reference |-> 13] }

NoCert == [ledger_root |-> None, total_events |-> 0,
           compliance_level |-> [num |-> 0, den |-> 1],
           articles_covered |-> <<>>, status |-> ""]

NoProof == [event_index |-> 0, event_hash |-> EmptyStr, proof |-> <<>>,
            root |-> None, tree_height |-> 0]

NeverFinalized == [calls |-> 0, root |-> None, tree_height |-> 0]

\* the server module as imported, no request handled yet
NoResponse == [kind |-> "none"]

NoLedgers == [c \in {} |-> 0]

ServerImported(mode) ==
    /\ MODE = mode
    /\ ledgers = NoLedgers
    /\ red_list = <<>>
    /\ judgments = <<>>
    /\ response = NoResponse
    /\ verify_requests = <<>>

NoAudit == [kind |-> "none"]

\* MPCProtocol(threshold), no node set up yet
NoResult == [status |-> "none"]

ProtocolCreated(t) ==
    /\ threshold = t
    /\ mpc_nodes = <<>>
    /\ mpc_result = NoResult

Init ==
    /\ ServerImported("SHIELD")
    /\ ProtocolCreated(3)
    /\ audit = NoAudit
    /\ events = <<>>
    /\ leaves = <<>>
    /\ nodes = <<>>
    /\ root = None
    /\ tree_height = 0
    /\ uuid_counter = 0
    /\ clock = 0
    /\ lastOp = "__init__"
    /\ ret_root = None
    /\ cert = NoCert
    /\ proof = NoProof
    /\ verdict = FALSE
    /\ tampered = "none"
    /\ error = ""
    /\ last_finalize = NeverFinalized

\* ---------------------------------------------------------------- ComplianceLedger
\* a keyword argument of a call, or its default when the caller leaves it out
Arg(req, name, default) == IF name \in DOMAIN req THEN req[name] ELSE default

\* an Article12Event that keeps the raw input in its metadata
NewEvent_keeps_input(req, id, now) ==
    [event_id |-> id,
     timestamp |-> now,
     model_id |-> req.model_id,
     input_hash |-> Truncate16(Sha256(StrTok(req.input_data))),
     output_hash |-> Truncate16(Sha256(StrTok(req.output_data))),
     compliance_status |-> req.compliance_status,
     risk_level |-> req.risk_level,
     article_reference |-> req.article_reference,
     system_purpose |-> Arg(req, "system_purpose", ""),
     deployment_context |-> Arg(req, "deployment_context", ""),
     oversight_mechanism |-> NoneStr,
     metadata |-> {req.input_data}]

\* the Article12Event constructed by record_compliance_event
NewEvent(req, id, now) ==
    [event_id |-> id,
     timestamp |-> now,
     model_id |-> req.model_id,
     input_hash |-> Truncate16(Sha256(StrTok(req.input_data))),
     output_hash |-> Truncate16(Sha256(StrTok(req.output_data))),
     compliance_status |-> req.compliance_status,
     risk_level |-> req.risk_level,
     article_reference |-> req.article_reference,
     system_purpose |-> Arg(req, "system_purpose", ""),
     deployment_context |-> Arg(req, "deployment_context", ""),
     oversight_mechanism |-> NoneStr,
     metadata |-> {}]

\* add_event putting the new hash at the head of the leaf list
add_event_at_head(lv, event) == <<compute_event_hash(event)>> \o lv

\* MerkleTree.add_event: the leaf list after the call
add_event(lv, event) == Append(lv, compute_event_hash(event))

\* the event inserted at the head of the list instead of appended
InsertEventFirst(evs, event) == <<event>> \o evs

\* ComplianceLedger.events.append(event)
AppendEvent(evs, event) == Append(evs, event)

\* the body of record_compliance_event
RecordEvent(req, now) ==
    /\ LET event == NewEvent(req, uuid_counter + 1, now)
       IN  /\ events' = AppendEvent(events, event)
           /\ leaves' = add_event(leaves, event)
    /\ uuid_counter' = uuid_counter + 1
    /\ clock' = now
    /\ lastOp' = "record_compliance_event"
    /\ ret_root' = None
    /\ cert' = NoCert
    /\ proof' = NoProof
    /\ verdict' = FALSE
    /\ tampered' = "none"
    /\ error' = ""
    /\ last_finalize' = NeverFinalized
    /\ UNCHANGED <<serverVars, mpcVars, audit>>
    /\ UNCHANGED <<nodes, root, tree_height>>

record_compliance_event(req, now) ==
    /\ Len(events) < MaxEvents
    /\ RecordEvent(req, now)

finalize_block ==
    LET t == build(Tree)
    IN  /\ nodes' = t.nodes
        /\ root' = t.root
        /\ tree_height' = t.tree_height
        /\ ret_root' = t.root
        /\ last_finalize' = [calls |-> IF last_finalize.calls = 0 THEN 1 ELSE 2,
                             root |-> t.root,
                             tree_height |-> t.tree_height]
        /\ lastOp' = "finalize_block"
        /\ cert' = NoCert
        /\ proof' = NoProof
        /\ verdict' = FALSE
        /\ tampered' = "none"
        /\ error' = ""
        /\ UNCHANGED <<serverVars, mpcVars, audit>>
        /\ UNCHANGED <<events, leaves, uuid_counter, clock>>

\* _calculate_compliance_level counting every status but FAIL as passed
compliance_level_not_fail(evs) ==
    IF Len(evs) = 0
    THEN [num |-> 0, den |-> 1]
    ELSE LET passed == Cardinality({i \in 1..Len(evs) : evs[i].compliance_status # "FAIL"})
         IN  [num |-> passed * 100, den |-> Len(evs)]

\* _calculate_compliance_level, as the exact fraction num / den
_calculate_compliance_level(evs) ==
    IF Len(evs) = 0
    THEN [num |-> 0, den |-> 1]
    ELSE LET passed == Cardinality({i \in 1..Len(evs) : evs[i].compliance_status = "PASS"})
         IN  [num |-> passed * 100, den |-> Len(evs)]

\* level > 80
Above80(level) == level.num > 80 * level.den

\* level >= 80
AtLeast80(level) == level.num >= 80 * level.den

\* list(S) for a set S: the lists that hold every element of S once, in any order
ListsOfSet(S) ==
    {l \in [1..Cardinality(S) -> S] : \A x \in S : \E k \in 1..Cardinality(S) : l[k] = x}

\* the article of every event, without the set() that removes repetitions
ArticlesOfAllEvents(evs) == {[i \in 1..Len(evs) |-> evs[i].article_reference]}

\* list(set(e.article_reference for e in self.events)): the lists it can return
ArticlesCovered(evs) == ListsOfSet({evs[i].article_reference : i \in 1..Len(evs)})

\* the certificate built from the ledger's events, the root chosen for it and
\* the list of articles
Certificate(evs, r, articles) ==
    [ledger_root |-> r,
     total_events |-> Len(evs),
     compliance_level |-> _calculate_compliance_level(evs),
     articles_covered |-> articles,
     status |-> IF AtLeast80(_calculate_compliance_level(evs))
                THEN "COMPLIANT" ELSE "REVIEW_REQUIRED"]

\* self.merkle_tree.root or self.finalize_block(): the tree after evaluating it
RootOrFinalize(t) == IF Truthy(t.root) THEN t ELSE build(t)

get_compliance_certificate ==
    LET t == RootOrFinalize(Tree)
    IN  /\ nodes' = t.nodes
        /\ root' = t.root
        /\ tree_height' = t.tree_height
        /\ \E articles \in ArticlesCovered(events) :
              cert' = Certificate(events, t.root, articles)
        /\ lastOp' = "get_compliance_certificate"
        /\ ret_root' = None
        /\ proof' = NoProof
        /\ verdict' = FALSE
        /\ tampered' = "none"
        /\ error' = ""
        /\ UNCHANGED <<serverVars, mpcVars, audit>>
        /\ UNCHANGED <<events, leaves, uuid_counter, clock, last_finalize>>

\* ---------------------------------------------------------------- proofs
\* Python list indexing lv[i] (0-based, negative indices count from the end)
PyIndexOk(lv, i) == -Len(lv) <= i /\ i < Len(lv)
PyIndex(lv, i) == IF i >= 0 THEN lv[i + 1] ELSE lv[Len(lv) + i + 1]

\* the range check at the head of generate_proof
IndexOutOfRange(t, event_index) == event_index >= Len(t.leaves)

\* if not self.root: self.build()
BuildIfNoRoot(t) == IF ~Truthy(t.root) THEN build(t) ELSE t

\* the dict returned by generate_proof on the (built) tree t
ProofDict(t, event_index) ==
    [event_index |-> event_index,
     event_hash |-> PyIndex(t.leaves, event_index),
     proof |-> <<[type |-> "root_anchor", root |-> t.root]>>,
     root |-> t.root,
     tree_height |-> t.tree_height]

generate_proof(event_index) ==
    /\ lastOp' = "generate_proof"
    /\ ret_root' = None
    /\ cert' = NoCert
    /\ verdict' = FALSE
    /\ tampered' = "none"
    /\ UNCHANGED <<serverVars, mpcVars, audit>>
    /\ UNCHANGED <<events, leaves, uuid_counter, clock, last_finalize>>
    /\ IF IndexOutOfRange(Tree, event_index)
       THEN /\ error' = "ValueError"
            /\ proof' = NoProof
            /\ UNCHANGED <<nodes, root, tree_height>>
       ELSE LET t == BuildIfNoRoot(Tree)
            IN  /\ nodes' = t.nodes
                /\ root' = t.root
                /\ tree_height' = t.tree_height
                /\ IF PyIndexOk(t.leaves, event_index)
                   THEN /\ proof' = ProofDict(t, event_index)
                        /\ error' = ""
                   ELSE /\ proof' = NoProof
                        /\ error' = "IndexError"

\* dict.get(key, default) for the value v stored under key
DictGet(v, default) == IF v = Missing THEN default ELSE v

\* verify_proof comparing against the digest length in bytes instead of hex characters
VerifyProof_bytes(p) ==
    DictGet(p.root, EmptyStr) # EmptyStr
        /\ HexLen(DictGet(p.event_hash, EmptyStr)) = DigestHexLen \div 2

\* MerkleTree.verify_proof(proof)
VerifyProof(p) ==
    DictGet(p.root, EmptyStr) # EmptyStr
        /\ HexLen(DictGet(p.event_hash, EmptyStr)) = DigestHexLen

\* verify_proof raises TypeError: len() reached with an event_hash that has no length
VerifyProofRaises(p) ==
    DictGet(p.root, EmptyStr) # EmptyStr /\ DictGet(p.event_hash, EmptyStr) = None

ForgedDigest == Sha256(StrTok("forged"))

TamperKinds == {"none", "event_hash", "path"}

\* the proof p after the caller changed one part of it
Tamper(p, kind) ==
    CASE kind = "event_hash" -> [p EXCEPT !.event_hash = ForgedDigest]
      [] kind = "path" -> [p EXCEPT !.proof[1].root = ForgedDigest]
      [] OTHER -> p

\* verify_proof called on the proof generate_proof just returned, possibly tampered with
verify_proof(kind) ==
    /\ lastOp = "generate_proof"
    /\ error = ""
    /\ proof' = Tamper(proof, kind)
    /\ verdict' = VerifyProof(Tamper(proof, kind))
    /\ tampered' = kind
    /\ lastOp' = "verify_proof"
    /\ UNCHANGED <<serverVars, mpcVars, audit>>
    /\ UNCHANGED <<events, leaves, nodes, root, tree_height, uuid_counter, clock,
                   ret_root, cert, error, last_finalize>>

\* ---------------------------------------------------------------- specification
\* event_index arguments: every valid index, the first one past the end, and the
\* negative indices -1 (Python's last element) and -(n + 1) (before the first)
ProofIndexes == (0..Len(leaves)) \cup {-1, -(Len(leaves) + 1)}

Next ==
    \/ \E req \in Requests, now \in clock..MaxClock : record_compliance_event(req, now)
    \/ finalize_block
    \/ get_compliance_certificate
    \/ \E i \in ProofIndexes : generate_proof(i)
    \/ \E kind \in TamperKinds : verify_proof(kind)

Spec == Init /\ [][Next]_vars

\* ---------------------------------------------------------------- certificates
\* record_compliance_event in the runs that only record and certify
record_for_certificate(req, now) ==
    /\ Len(events) < MaxCertEvents
    /\ RecordEvent(req, now)

NextCert ==
    \/ \E req \in Requests, now \in clock..MaxClock : record_for_certificate(req, now)
    \/ get_compliance_certificate

SpecCert == Init /\ [][NextCert]_vars

\* ---------------------------------------------------------------- threads
\* Calls of record_compliance_event made from several threads of one process.
\* The method holds no lock: its two appends are separate steps, and a call that
\* has appended its event but not yet its leaf is an event without a leaf.
PendingEvents == {i \in 1..Len(events) : \A k \in 1..Len(leaves) :
                                          leaves[k] # compute_event_hash(events[i])}

\* self.events.append(event), after the event was constructed
thread_append_event(req, now) ==
    /\ Len(events) < MaxEvents
    /\ Cardinality(PendingEvents) < MaxThreads
    /\ events' = AppendEvent(events, NewEvent(req, uuid_counter + 1, now))
    /\ uuid_counter' = uuid_counter + 1
    /\ clock' = now
    /\ lastOp' = "events.append"
    /\ ret_root' = None
    /\ cert' = NoCert
    /\ proof' = NoProof
    /\ verdict' = FALSE
    /\ tampered' = "none"
    /\ error' = ""
    /\ last_finalize' = NeverFinalized
    /\ UNCHANGED <<serverVars, mpcVars, audit>>
    /\ UNCHANGED <<leaves, nodes, root, tree_height>>

\* self.merkle_tree.add_event(event) of the call that appended events[i]
thread_add_event(i) ==
    /\ i \in PendingEvents
    /\ leaves' = add_event(leaves, events[i])
    /\ lastOp' = "record_compliance_event"
    /\ ret_root' = None
    /\ cert' = NoCert
    /\ proof' = NoProof
    /\ verdict' = FALSE
    /\ tampered' = "none"
    /\ error' = ""
    /\ UNCHANGED <<serverVars, mpcVars, audit>>
    /\ UNCHANGED <<events, nodes, root, tree_height, uuid_counter, clock, last_finalize>>

NextThreads ==
    \/ \E req \in Requests, now \in clock..MaxClock : thread_append_event(req, now)
    \/ \E i \in 1..MaxEvents : thread_add_event(i)
    \/ finalize_block
    \/ get_compliance_certificate
    \/ \E i \in ProofIndexes : generate_proof(i)

SpecThreads == Init /\ [][NextThreads]_vars

\* ---------------------------------------------------------------- any input
\* a request whose model_id is empty
InvalidRequests ==
    { [model_id |-> "", input_data |-> "user: calculate risk",
       output_data |-> "risk: 0.23", compliance_status |-> "PASS",
       risk_level |-> "HIGH_RISK", article_reference |-> 12] }

record_any_request(req, now) ==
    /\ Len(events) < MaxEvents
    /\ RecordEvent(req, now)

NextInput ==
    \/ \E req \in Requests \cup InvalidRequests, now \in clock..MaxClock :
          record_any_request(req, now)
    \/ finalize_block
    \/ get_compliance_certificate

SpecInput == Init /\ [][NextInput]_vars

\* ---------------------------------------------------------------- verify_proof on any dict
RootAnchor == [type |-> "root_anchor", root |-> Sha256(StrTok("empty_ledger"))]

\* proof dicts a caller can hand to verify_proof
GivenProofs ==
    [event_index : {0},
     event_hash : {Missing, None, EmptyStr, Truncate16(ForgedDigest), ForgedDigest,
                   Sha256(StrTok("gpt-4"))},
     proof : {<<>>, <<RootAnchor>>, <<RootAnchor, RootAnchor>>},
     root : {Missing, None, EmptyStr, Sha256(StrTok("empty_ledger"))},
     tree_height : 0..2]

InitVerify ==
    /\ ServerImported("SHIELD")
    /\ ProtocolCreated(3)
    /\ audit = NoAudit
    /\ events = <<>>
    /\ leaves = <<>>
    /\ nodes = <<>>
    /\ root = None
    /\ tree_height = 0
    /\ uuid_counter = 0
    /\ clock = 0
    /\ lastOp = "given_proof"
    /\ ret_root = None
    /\ cert = NoCert
    /\ proof \in GivenProofs
    /\ verdict = FALSE
    /\ tampered = "given"
    /\ error = ""
    /\ last_finalize = NeverFinalized

\* verify_proof called on the given dict
verify_given_proof ==
    /\ lastOp = "given_proof"
    /\ lastOp' = "verify_proof"
    /\ IF VerifyProofRaises(proof)
       THEN verdict' = FALSE /\ error' = "TypeError"
       ELSE verdict' = VerifyProof(proof) /\ error' = ""
    /\ UNCHANGED <<serverVars, mpcVars, audit>>
    /\ UNCHANGED <<events, leaves, nodes, root, tree_height, uuid_counter, clock,
                   ret_root, cert, proof, tampered, last_finalize>>

NextVerify == verify_given_proof

SpecVerify == InitVerify /\ [][NextVerify]_vars

\* ---------------------------------------------------------------- audit trail
\* "events" of export_audit_trail
ExportedEvents(evs) == [k \in 1..Len(evs) |-> to_ordered_dict(evs[k])]

\* MerkleTree.to_dict (chain_id and created_at, fixed at construction, left out)
to_dict(t) ==
    [root |-> t.root,
     event_count |-> Len(t.leaves),
     tree_height |-> t.tree_height,
     first_event_hash |-> IF Len(t.leaves) > 0 THEN t.leaves[1] ELSE None,
     latest_event_hash |-> IF Len(t.leaves) > 0 THEN t.leaves[Len(t.leaves)] ELSE None]

\* the dict export_audit_trail returns on a ledger [events, leaves, nodes, root,
\* tree_height]: its entries are evaluated in order, "ledger" on the tree as
\* it is and "certificate" after `self.merkle_tree.root or self.finalize_block()`
ExportAuditTrail(ledger, articles) ==
    LET after == RootOrFinalize(ledger)
    IN  [kind |-> "audit",
         ledger |-> to_dict(ledger),
         certificate |-> Certificate(after.events, after.root, articles),
         events |-> ExportedEvents(after.events)]

export_audit_trail ==
    LET ledger == [events |-> events, leaves |-> leaves, nodes |-> nodes,
                   root |-> root, tree_height |-> tree_height]
        after == RootOrFinalize(ledger)
    IN  /\ nodes' = after.nodes
        /\ root' = after.root
        /\ tree_height' = after.tree_height
        /\ \E articles \in ArticlesCovered(events) :
              audit' = ExportAuditTrail(ledger, articles)
        /\ lastOp' = "export_audit_trail"
        /\ ret_root' = None
        /\ cert' = NoCert
        /\ proof' = NoProof
        /\ verdict' = FALSE
        /\ tampered' = "none"
        /\ error' = ""
        /\ UNCHANGED <<serverVars, mpcVars>>
        /\ UNCHANGED <<events, leaves, uuid_counter, clock, last_finalize>>

NextAudit ==
    \/ \E req \in Requests, now \in clock..MaxClock : record_compliance_event(req, now)
    \/ finalize_block
    \/ export_audit_trail

SpecAudit == Init /\ [][NextAudit]_vars

\* ---------------------------------------------------------------- config.py
\* values of the SOVEREIGN_MODE environment variable; "AUDIT" is a value that
\* names none of the three modes
Modes == {"SHIELD", "SWORD", "JUDGE", "AUDIT"}

is_shield_mode == MODE = "SHIELD"

is_sword_mode == MODE = "SWORD"

\* is_judge_mode letting every mode but SHIELD through
is_judge_mode_not_shield == MODE # "SHIELD"

is_judge_mode == MODE = "JUDGE"

can_expose_violations == MODE \in {"SWORD", "JUDGE"}

is_public_registry == MODE \in {"SWORD", "JUDGE"}

\* ---------------------------------------------------------------- api/server.py
\* str.lower() of a provider name
Lower(provider) ==
    CASE provider = "OpenAI" -> "openai"
      [] provider = "openai" -> "openai"
      [] provider = "Anthropic" -> "anthropic"
      [] OTHER -> provider

\* f"chain-{request.model_provider.lower()}"
ChainIdOf(provider) ==
    CASE Lower(provider) = "openai" -> "chain-openai"
      [] Lower(provider) = "anthropic" -> "chain-anthropic"
      [] OTHER -> "chain-other"

\* chain_id path parameters of the GET handlers
ChainIds == {"chain-openai", "chain-anthropic", "chain-OpenAI"}

\* bodies of POST /api/v1/verify
VerifyRequests ==
    { [model_id |-> "gpt-4", model_provider |-> "OpenAI",
       input_hash |-> "user: calculate risk", output_hash |-> "risk: 0.23",
       compliance_status |-> "PASS", risk_level |-> "HIGH_RISK",
       article_reference |-> 12, system_purpose |-> "credit scoring",
       deployment_context |-> "production"],
      [model_id |-> "gpt-4", model_provider |-> "openai",
       input_hash |-> "user: approve loan", output_hash |-> "decision: approved",
       compliance_status |-> "FAIL", risk_level |-> "HIGH_RISK",
       article_reference |-> 12, system_purpose |-> "", deployment_context |-> ""],
      [model_id |-> "claude-3", model_provider |-> "Anthropic",
       input_hash |-> "user: diagnose", output_hash |-> "diagnosis: flu",
       compliance_status |-> "WARNING", risk_level |-> "HIGH_RISK",
       article_reference |-> 13, system_purpose |-> "", deployment_context |-> ""] }

\* the keyword arguments verify_compliance passes to record_compliance_event
RecordArgs(request) ==
    [model_id |-> request.model_id,
     input_data |-> request.input_hash,
     output_data |-> request.output_hash,
     compliance_status |-> request.compliance_status,
     risk_level |-> request.risk_level,
     article_reference |-> request.article_reference,
     system_purpose |-> request.system_purpose,
     deployment_context |-> request.deployment_context]

\* ComplianceLedger(chain_id)
NewLedger(chain_id) ==
    [chain_name |-> chain_id, events |-> <<>>, leaves |-> <<>>, nodes |-> <<>>,
     root |-> None, tree_height |-> 0]

\* a ledger created for every request, registered or not
CreateLedger(reg, chain_id) == NewLedger(chain_id)

\* if chain_id not in ledgers: ledgers[chain_id] = ComplianceLedger(chain_id)
\* ledger = ledgers[chain_id]
GetOrCreateLedger(reg, chain_id) ==
    IF chain_id \in DOMAIN reg THEN reg[chain_id] ELSE NewLedger(chain_id)

\* every chain_id of the registry bound to the one ledger object
StoreLedger_shared(reg, chain_id, ledger) ==
    [c \in DOMAIN reg \cup {chain_id} |-> ledger]

\* the registry after the ledger object bound to chain_id was changed
StoreLedger(reg, chain_id, ledger) ==
    [c \in DOMAIN reg \cup {chain_id} |-> IF c = chain_id THEN ledger ELSE reg[c]]

\* ledger.record_compliance_event(...) on a ledger of the registry
LedgerRecord(ledger, event) ==
    [ledger EXCEPT !.events = AppendEvent(@, event),
                   !.leaves = add_event(@, event)]

\* a finalize that builds only when the ledger has no root yet
LedgerFinalize_if_no_root(ledger) == RootOrFinalize(ledger)

\* ledger.finalize_block() on a ledger of the registry
LedgerFinalize(ledger) == build(ledger)

\* every status but PASS counted as a violation
IsViolation_not_pass(compliance_status) == compliance_status # "PASS"

\* request.compliance_status == "FAIL"
IsViolation(compliance_status) == compliance_status = "FAIL"

Violation(request, event, id) ==
    [violation_id |-> id,
     model_id |-> request.model_id,
     provider |-> request.model_provider,
     article |-> request.article_reference,
     evidence_hash |-> compute_event_hash(event),
     timestamp |-> event.timestamp,
     reported_by |-> "digital-gallows"]

\* f"VIOL-{uuid.uuid4().hex[:8]}", f"RPT-..." and f"JUD-...": the n-th fresh
\* identifier drawn under a prefix
FreshId(prefix, n) == [prefix |-> prefix, uuid |-> n]

IsReport(v) == "report_id" \in DOMAIN v

IsViolationEntry(v) == "violation_id" \in DOMAIN v

\* number of POST requests that were accepted so far
AcceptedPosts ==
    Len(verify_requests) + Len(SelectSeq(red_list, IsReport)) + Len(judgments)

HTTPException(status_code, detail) ==
    [kind |-> "error", status_code |-> status_code, detail |-> detail]

\* POST /api/v1/verify
verify_compliance(request, now) ==
    LET chain_id == ChainIdOf(request.model_provider)
        event == NewEvent(RecordArgs(request), uuid_counter + 1, now)
        ledger == LedgerFinalize(LedgerRecord(GetOrCreateLedger(ledgers, chain_id), event))
        exposed == ~is_shield_mode /\ can_expose_violations
                       /\ IsViolation(request.compliance_status)
        violation_id == FreshId("VIOL", Len(SelectSeq(red_list, IsViolationEntry)) + 1)
        base == [kind |-> "verify", success |-> TRUE, mode |-> MODE,
                 event_id |-> event.event_id, chain_id |-> chain_id,
                 root_hash |-> ledger.root, timestamp |-> event.timestamp]
    IN  /\ AcceptedPosts < MaxRequests
        /\ ledgers' = StoreLedger(ledgers, chain_id, ledger)
        /\ verify_requests' = Append(verify_requests, chain_id)
        /\ red_list' = IF exposed
                       THEN Append(red_list, Violation(request, event, violation_id))
                       ELSE red_list
        /\ uuid_counter' = uuid_counter + 1
        /\ clock' = now
        /\ response' =
              IF is_shield_mode
              THEN base @@ [compliance_status |-> request.compliance_status]
              ELSE IF can_expose_violations
                   THEN IF exposed
                        THEN base @@ [public_ledger |-> TRUE,
                                      violation_id |-> violation_id]
                        ELSE base @@ [public_ledger |-> TRUE]
                   ELSE base
        /\ lastOp' = "verify_compliance"
        /\ error' = ""
        /\ UNCHANGED <<MODE, judgments, mpcVars, audit>>
        /\ UNCHANGED <<events, leaves, nodes, root, tree_height, ret_root, cert, proof,
                       verdict, tampered, last_finalize>>

\* GET /api/v1/certificate/{chain_id}
get_certificate(chain_id) ==
    /\ lastOp' = "get_certificate"
    /\ IF chain_id \notin DOMAIN ledgers
       THEN /\ error' = "404"
            /\ response' = HTTPException(404, "Chain not found")
            /\ UNCHANGED ledgers
       ELSE LET ledger == RootOrFinalize(ledgers[chain_id])
            IN  /\ error' = ""
                /\ ledgers' = StoreLedger(ledgers, chain_id, ledger)
                /\ \E articles \in ArticlesCovered(ledger.events) :
                      response' = Certificate(ledger.events, ledger.root, articles) @@
                                  [kind |-> "certificate", chain_name |-> ledger.chain_name,
                                   mode |-> MODE, is_public |-> is_public_registry]
    /\ UNCHANGED <<MODE, red_list, judgments, verify_requests, mpcVars, audit>>
    /\ UNCHANGED <<events, leaves, nodes, root, tree_height, uuid_counter, clock, ret_root,
                   cert, proof, verdict, tampered, last_finalize>>

\* bodies of POST /api/v1/whistleblower
WhistleblowerReports ==
    { [model_id |-> "gpt-4", provider |-> "OpenAI", violation_type |-> "no logging",
       evidence_hash |-> ForgedDigest, severity |-> "HIGH", anonymous |-> TRUE] }

\* POST /api/v1/whistleblower
submit_whistleblower_report(report, now) ==
    /\ AcceptedPosts < MaxRequests
    /\ lastOp' = "submit_whistleblower_report"
    /\ IF is_shield_mode
       THEN /\ error' = "403"
            /\ response' = HTTPException(403, "Whistleblower reports disabled in SHIELD mode")
            /\ UNCHANGED <<red_list, clock>>
       ELSE /\ error' = ""
            /\ red_list' = Append(red_list,
                  [report_id |-> FreshId("RPT", Len(SelectSeq(red_list, IsReport)) + 1), model_id |-> report.model_id,
                   provider |-> report.provider, violation_type |-> report.violation_type,
                   evidence_hash |-> report.evidence_hash, severity |-> report.severity,
                   timestamp |-> now, status |-> "RECEIVED", mode |-> MODE])
            /\ clock' = now
            /\ response' = [kind |-> "report", success |-> TRUE,
                            report_id |-> FreshId("RPT", Len(SelectSeq(red_list, IsReport)) + 1),
                            status |-> "RECEIVED",
                            regulators_notified |->
                                IF is_sword_mode THEN <<"EU AI Office">> ELSE <<>>,
                            mode |-> MODE]
    /\ UNCHANGED <<MODE, ledgers, judgments, verify_requests, mpcVars, audit>>
    /\ UNCHANGED <<events, leaves, nodes, root, tree_height, uuid_counter, ret_root, cert,
                   proof, verdict, tampered, last_finalize>>

\* GET /api/v1/red-list
get_red_list ==
    /\ lastOp' = "get_red_list"
    /\ IF is_shield_mode
       THEN /\ error' = "403"
            /\ response' = HTTPException(403, "Red list hidden in SHIELD mode")
       ELSE /\ error' = ""
            /\ response' = [kind |-> "red_list", mode |-> MODE,
                            total_violations |-> Len(red_list), violations |-> red_list]
    /\ UNCHANGED <<MODE, ledgers, red_list, judgments, verify_requests, mpcVars, audit>>
    /\ UNCHANGED <<events, leaves, nodes, root, tree_height, uuid_counter, clock, ret_root,
                   cert, proof, verdict, tampered, last_finalize>>

\* bodies of POST /api/v1/judge/ruling
JudgeRulingRequests ==
    { [article |-> 12, question |-> "is sampling of logs enough",
       ruling |-> "no", precedent_cases |-> <<>>] }

\* POST /api/v1/judge/ruling
issue_judgment(request, now) ==
    /\ AcceptedPosts < MaxRequests
    /\ lastOp' = "issue_judgment"
    /\ IF ~is_judge_mode
       THEN /\ error' = "403"
            /\ response' = HTTPException(403, "Judge rulings require JUDGE mode")
            /\ UNCHANGED <<judgments, clock>>
       ELSE /\ error' = ""
            /\ judgments' = Append(judgments,
                  [judgment_id |-> FreshId("JUD", Len(judgments) + 1), article |-> request.article,
                   question |-> request.question, ruling |-> request.ruling,
                   precedent_cases |-> request.precedent_cases, issued_at |-> now,
                   authority |-> "Digital Gallows", status |-> "BINDING"])
            /\ clock' = now
            /\ response' = [kind |-> "judgment", success |-> TRUE,
                            judgment_id |-> FreshId("JUD", Len(judgments) + 1), status |-> "BINDING",
                            precedent |-> Len(judgments) + 1]
    /\ UNCHANGED <<MODE, ledgers, red_list, verify_requests, mpcVars, audit>>
    /\ UNCHANGED <<events, leaves, nodes, root, tree_height, uuid_counter, ret_root, cert,
                   proof, verdict, tampered, last_finalize>>

\* GET /api/v1/judge/rulings
get_judgments ==
    /\ lastOp' = "get_judgments"
    /\ IF ~is_judge_mode
       THEN /\ error' = "403"
            /\ response' = HTTPException(403, "Judgments require JUDGE mode")
       ELSE /\ error' = ""
            /\ response' = [kind |-> "rulings", mode |-> "JUDGE",
                            total_judgments |-> Len(judgments), rulings |-> judgments]
    /\ UNCHANGED <<MODE, ledgers, red_list, judgments, verify_requests, mpcVars, audit>>
    /\ UNCHANGED <<events, leaves, nodes, root, tree_height, uuid_counter, clock, ret_root,
                   cert, proof, verdict, tampered, last_finalize>>

\* the server started with any value of SOVEREIGN_MODE
\* get_audit_trail getting or creating the ledger, as POST /api/v1/verify does,
\* instead of answering 404
get_audit_trail_creating(chain_id) ==
    /\ lastOp' = "get_audit_trail"
    /\ LET ledger == GetOrCreateLedger(ledgers, chain_id)
       IN  /\ error' = ""
           /\ ledgers' = StoreLedger(ledgers, chain_id, RootOrFinalize(ledger))
           /\ \E articles \in ArticlesCovered(ledger.events) :
                 response' = ExportAuditTrail(ledger, articles) @@
                             [mode |-> MODE, is_public |-> is_public_registry]
    /\ UNCHANGED <<MODE, red_list, judgments, verify_requests, mpcVars, audit>>
    /\ UNCHANGED <<events, leaves, nodes, root, tree_height, uuid_counter, clock, ret_root,
                   cert, proof, verdict, tampered, last_finalize>>

\* GET /api/v1/audit/{chain_id}
get_audit_trail(chain_id) ==
    /\ lastOp' = "get_audit_trail"
    /\ IF chain_id \notin DOMAIN ledgers
       THEN /\ error' = "404"
            /\ response' = HTTPException(404, "Chain not found")
            /\ UNCHANGED ledgers
       ELSE LET ledger == ledgers[chain_id]
            IN  /\ error' = ""
                /\ ledgers' = StoreLedger(ledgers, chain_id, RootOrFinalize(ledger))
                /\ \E articles \in ArticlesCovered(ledger.events) :
                      response' = ExportAuditTrail(ledger, articles) @@
                                  [mode |-> MODE, is_public |-> is_public_registry]
    /\ UNCHANGED <<MODE, red_list, judgments, verify_requests, mpcVars, audit>>
    /\ UNCHANGED <<events, leaves, nodes, root, tree_height, uuid_counter, clock, ret_root,
                   cert, proof, verdict, tampered, last_finalize>>

InitServer ==
    /\ \E mode \in Modes : ServerImported(mode)
    /\ ProtocolCreated(3)
    /\ audit = NoAudit
    /\ events = <<>>
    /\ leaves = <<>>
    /\ nodes = <<>>
    /\ root = None
    /\ tree_height = 0
    /\ uuid_counter = 0
    /\ clock = 0
    /\ lastOp = "import"
    /\ ret_root = None
    /\ cert = NoCert
    /\ proof = NoProof
    /\ verdict = FALSE
    /\ tampered = "none"
    /\ error = ""
    /\ last_finalize = NeverFinalized

\* each handler is an `async def` without an await: the event loop runs it to
\* its return before it starts another
NextServer ==
    \/ \E request \in VerifyRequests, now \in clock..MaxClock : verify_compliance(request, now)
    \/ \E chain_id \in ChainIds : get_certificate(chain_id)
    \/ \E report \in WhistleblowerReports, now \in clock..MaxClock :
          submit_whistleblower_report(report, now)
    \/ get_red_list
    \/ \E request \in JudgeRulingRequests, now \in clock..MaxClock :
          issue_judgment(request, now)
    \/ get_judgments
    \/ \E chain_id \in ChainIds : get_audit_trail(chain_id)

SpecServer == InitServer /\ [][NextServer]_vars

\* ---------------------------------------------------------------- mpc/protocol.py
NodeIds == {"node-1", "node-2", "node-3"}

\* threshold arguments of MPCProtocol(threshold)
Thresholds == 0..4

\* self.nodes[node_id] = node: an existing key keeps its place, a new one goes last
DictSet(node_list, node_id, status) ==
    IF \E k \in 1..Len(node_list) : node_list[k].node_id = node_id
    THEN [k \in 1..Len(node_list) |->
             IF node_list[k].node_id = node_id
             THEN [node_id |-> node_id, status |-> status]
             ELSE node_list[k]]
    ELSE Append(node_list, [node_id |-> node_id, status |-> status])

\* the loop of setup_network over node_ids
RECURSIVE SetupAll(_, _)
SetupAll(node_list, node_ids) ==
    IF node_ids = <<>>
    THEN node_list
    ELSE SetupAll(DictSet(node_list, Head(node_ids), "online"), Tail(node_ids))

\* node_ids arguments of setup_network
NodeIdLists == UNION {ListsOfSet(S) : S \in SUBSET NodeIds \ {{}}}

setup_network(node_ids) ==
    /\ mpc_nodes' = SetupAll(mpc_nodes, node_ids)
    /\ mpc_result' = NoResult
    /\ lastOp' = "setup_network"
    /\ UNCHANGED <<threshold, serverVars, audit>>
    /\ UNCHANGED <<events, leaves, nodes, root, tree_height, uuid_counter, clock, ret_root,
                   cert, proof, verdict, tampered, error, last_finalize>>

\* self.nodes[node_id] = MPCNode(node_id): a node that has no key pair yet
add_node(node_id) ==
    /\ mpc_nodes' = DictSet(mpc_nodes, node_id, "offline")
    /\ mpc_result' = NoResult
    /\ lastOp' = "MPCNode"
    /\ UNCHANGED <<threshold, serverVars, audit>>
    /\ UNCHANGED <<events, leaves, nodes, root, tree_height, uuid_counter, clock, ret_root,
                   cert, proof, verdict, tampered, error, last_finalize>>

\* MPCNode.generate_keypair on a node of the network
generate_keypair(node_id) ==
    /\ \E k \in 1..Len(mpc_nodes) : mpc_nodes[k].node_id = node_id
    /\ mpc_nodes' = DictSet(mpc_nodes, node_id, "online")
    /\ mpc_result' = NoResult
    /\ lastOp' = "generate_keypair"
    /\ UNCHANGED <<threshold, serverVars, audit>>
    /\ UNCHANGED <<events, leaves, nodes, root, tree_height, uuid_counter, clock, ret_root,
                   cert, proof, verdict, tampered, error, last_finalize>>

\* simulated_results arguments: a verdict for some of the nodes
SimulatedResults == UNION {[S -> BOOLEAN] : S \in SUBSET NodeIds}

IsOnline(node) == node.status = "online"

\* simulated_results.get(node_id, True)
ReportedVerified(simulated_results, node_id) ==
    IF node_id \in DOMAIN simulated_results THEN simulated_results[node_id] ELSE TRUE

\* the threshold met only when it is exceeded
ThresholdMet_strict(verified_count, t) == verified_count > t

\* verified_count >= self.threshold
ThresholdMet(verified_count, t) == verified_count >= t

\* the dict simulate_verification returns (the contribution and mpc_proof
\* digests left out)
VerificationResult(node_list, t, simulated_results) ==
    LET online == SelectSeq(node_list, IsOnline)
        active_nodes == Len(online)
        results == [k \in 1..Len(online) |->
                       [node_id |-> online[k].node_id,
                        verified |-> ReportedVerified(simulated_results, online[k].node_id)]]
        IsVerified(r) == r.verified
        verified == SelectSeq(results, IsVerified)
        verified_count == Len(verified)
    IN  IF active_nodes < t
        THEN [status |-> "FAILED",
              reason |-> [text |-> "Insufficient nodes", active_nodes |-> active_nodes,
                          threshold |-> t]]
        ELSE [status |-> IF ThresholdMet(verified_count, t) THEN "VERIFIED" ELSE "FAILED",
              threshold_met |-> ThresholdMet(verified_count, t),
              nodes_participating |-> Len(results),
              verified_by |-> [k \in 1..Len(verified) |-> verified[k].node_id]]

simulate_verification(simulated_results) ==
    /\ mpc_result' = VerificationResult(mpc_nodes, threshold, simulated_results)
    /\ lastOp' = "simulate_verification"
    /\ UNCHANGED <<threshold, mpc_nodes, serverVars, audit>>
    /\ UNCHANGED <<events, leaves, nodes, root, tree_height, uuid_counter, clock, ret_root,
                   cert, proof, verdict, tampered, error, last_finalize>>

\* MPCProtocol(threshold) for any threshold
InitMpc ==
    /\ ServerImported("SHIELD")
    /\ \E t \in Thresholds : ProtocolCreated(t)
    /\ audit = NoAudit
    /\ events = <<>>
    /\ leaves = <<>>
    /\ nodes = <<>>
    /\ root = None
    /\ tree_height = 0
    /\ uuid_counter = 0
    /\ clock = 0
    /\ lastOp = "MPCProtocol"
    /\ ret_root = None
    /\ cert = NoCert
    /\ proof = NoProof
    /\ verdict = FALSE
    /\ tampered = "none"
    /\ error = ""
    /\ last_finalize = NeverFinalized

NextMpc ==
    \/ \E node_ids \in NodeIdLists : setup_network(node_ids)
    \/ \E node_id \in NodeIds : add_node(node_id)
    \/ \E node_id \in NodeIds : generate_keypair(node_id)
    \/ \E simulated_results \in SimulatedResults : simulate_verification(simulated_results)

SpecMpc == InitMpc /\ [][NextMpc]_vars

\* ---------------------------------------------------------------- reference notions
IsPrefix(a, b) == Len(a) <= Len(b) /\ SubSeq(b, 1, Len(a)) = a

\* canonical hashes of the events, in append order
EventHashes(evs) == [i \in 1..Len(evs) |-> compute_event_hash(evs[i])]

RECURSIVE Pow2(_)
Pow2(k) == IF k = 0 THEN 1 ELSE 2 * Pow2(k - 1)

\* smallest power of two p >= n, for n >= 1
SmallestPow2(n) == CHOOSE p \in {Pow2(k) : k \in 0..n} :
                      p >= n /\ \A q \in {Pow2(k) : k \in 0..n} : q >= n => p <= q

\* ceil(log2(p)), for p >= 1
CeilLog2(p) == CHOOSE h \in 0..p : Pow2(h) >= p /\ \A g \in 0..p : Pow2(g) >= p => h <= g

\* root of the binary hash tree over a list whose length is a power of two:
\* the hash of the roots of its two halves
RECURSIVE HalvesRoot(_)
HalvesRoot(s) ==
    IF Len(s) = 1
    THEN s[1]
    ELSE LET half == Len(s) \div 2
         IN  Sha256(HalvesRoot(SubSeq(s, 1, half)) \o HalvesRoot(SubSeq(s, half + 1, Len(s))))

\* the root a build computes over the leaf list lv
MerkleRootOf(lv) ==
    build([leaves |-> lv, nodes |-> <<>>, root |-> None, tree_height |-> 0]).root

\* H(0x00 || leafHash) and H(0x01 || left || right)
TaggedLeaf(h) == Sha256(<<2>> \o h)
TaggedParent(l, r) == Sha256(<<3>> \o l \o r)

\* ---------------------------------------------------------------- claims

\* C1: the ledger_root of a certificate is the Merkle root of exactly the
\* total_events events the certificate reports (a cached root that predates an
\* append is not returned).
C1_CertRootCommitsToItsEvents ==
    lastOp = "get_compliance_certificate" =>
        cert.ledger_root =
            MerkleRootOf(SubSeq(EventHashes(events), 1, cert.total_events))

\* C2: on a ledger with n >= 1 events, verify_proof of the proof generate_proof(i)
\* returned for 0 <= i < n is true.
C2_GeneratedProofVerifies ==
    (/\ lastOp = "verify_proof"
     /\ tampered = "none"
     /\ Len(leaves) >= 1
     /\ 0 <= proof.event_index
     /\ proof.event_index < Len(leaves)) => verdict = TRUE

C2_Witness ==
    /\ lastOp = "verify_proof"
    /\ tampered = "none"
    /\ Len(leaves) = 3
    /\ proof.event_index = 2
    /\ proof.root # MerkleRootOf(leaves)
    /\ verdict = TRUE

\* a proof dict that is structurally invalid: its event hash is missing, is not
\* a string or has not the digest length, its path length is not its declared
\* height, or its root is missing or empty
MalformedProof(p) ==
    \/ p.event_hash = Missing
    \/ p.event_hash = None
    \/ HexLen(DictGet(p.event_hash, EmptyStr)) # DigestHexLen
    \/ Len(p.proof) # p.tree_height
    \/ p.root = Missing
    \/ p.root = EmptyStr

\* C3: verify_proof of a generated proof in which one hash of the path was
\* changed, or whose event hash was replaced by a 64-character hash that is
\* no leaf under the claimed root, is false.
C3_TamperDetected ==
    (lastOp = "verify_proof" /\ tampered # "none") => verdict = FALSE

\* C4: the root in a proof returned by generate_proof is the Merkle root over
\* all leaves present when the proof is generated.
C4_ProofRootIsCurrentRoot ==
    (lastOp = "generate_proof" /\ error = "") => proof.root = MerkleRootOf(leaves)

\* C5: finalize_block on n >= 1 events returns the root of the binary hash tree
\* over the canonical event hashes in append order padded to the smallest power
\* of two p >= n with copies of the last real leaf; the first n padded leaves
\* are the real leaves in order.
C5_FinalizeRootOverPaddedLeaves ==
    (lastOp = "finalize_block" /\ Len(events) >= 1) =>
        LET n == Len(events)
            p == SmallestPow2(n)
            hs == EventHashes(events)
        IN  /\ Len(nodes) = 2 * p - 1
            /\ \A k \in 1..p : nodes[k] = IF k <= n THEN hs[k] ELSE hs[n]
            /\ ret_root = HalvesRoot(SubSeq(nodes, 1, p))
            /\ ret_root = root

C5_Witness ==
    /\ lastOp = "finalize_block"
    /\ Len(events) = 3
    /\ Len(nodes) = 7
    /\ nodes[4] = nodes[3]

\* C6: a finalize_block that follows a finalize_block with no
\* record_compliance_event in between returns the same root as the first one
\* and leaves root, tree height and events unchanged.
C6_FinalizeTwiceSame ==
    [][(last_finalize.calls >= 1 /\ lastOp' = "finalize_block") =>
          /\ ret_root' = last_finalize.root
          /\ root' = root
          /\ root' = last_finalize.root
          /\ tree_height' = tree_height
          /\ tree_height' = last_finalize.tree_height
          /\ events' = events]_vars

C6_Witness ==
    /\ lastOp = "finalize_block"
    /\ last_finalize.calls = 2
    /\ Len(events) = 3
    /\ ret_root = last_finalize.root

\* C7: the event list and the leaf list only grow at the end: each is a prefix
\* of itself in the next state, and the k-th event appended sits at index k.
C7_AppendOnly ==
    /\ [][IsPrefix(events, events') /\ IsPrefix(leaves, leaves')]_vars
    /\ [](\A i \in 1..Len(events) : events[i].event_id = i)

C7_Witness ==
    /\ Len(events) = 3
    /\ Len(leaves) = 3
    /\ lastOp = "get_compliance_certificate"
    /\ events[1].compliance_status = "PASS"
    /\ events[3].compliance_status = "WARNING"

\* C8: in a built tree every leaf node stores H(0x00 || leafHash) and every
\* internal node H(0x01 || left || right); the root of a one-event ledger
\* differs from that event's hash.
C8_DomainSeparation ==
    (lastOp = "finalize_block" /\ Len(leaves) >= 1) =>
        LET p == SmallestPow2(Len(leaves))
            padded == _pad_to_power_of_two(leaves)
        IN  /\ \A k \in 1..p : k <= Len(nodes) => nodes[k] = TaggedLeaf(padded[k])
            /\ \A j \in (p + 1)..Len(nodes) :
                  nodes[j] = TaggedParent(nodes[2 * (j - p) - 1], nodes[2 * (j - p)])
            /\ Len(leaves) = 1 => root # leaves[1]

\* C9: after a build on n events tree_height is ceil(log2(p)) for p the
\* smallest power of two >= n, and 0 for n = 0.
C9_HeightLaw ==
    lastOp = "finalize_block" =>
        tree_height = IF Len(leaves) = 0 THEN 0 ELSE CeilLog2(SmallestPow2(Len(leaves)))

\* C10: generate_proof(i) with i >= n raises the index-out-of-range error and
\* leaves leaves, root and height unchanged; a proof is returned only for
\* 0 <= i < n.
C10_IndexChecked ==
    /\ [][\A i \in ProofIndexes :
            (generate_proof(i) /\ i >= Len(leaves)) =>
                (error' = "ValueError" /\ UNCHANGED <<leaves, root, tree_height>>)]_vars
    /\ []((lastOp = "generate_proof" /\ error = "") =>
            (0 <= proof.event_index /\ proof.event_index < Len(leaves)))


\* C11: verify_proof returns false, and raises nothing, for every structurally
\* invalid proof dict.
C11_MalformedProofRejected ==
    (lastOp = "verify_proof" /\ MalformedProof(proof)) => (verdict = FALSE /\ error = "")


\* root returned for a ledger without events
EmptyLedgerRoot == Sha256(StrTok("empty_ledger"))

\* C12: on a ledger with zero events finalize_block returns the empty-tree
\* sentinel root, the tree height is 0 and the score is 0; the certificate of
\* an empty ledger carries the same sentinel root with total_events = 0.
C12_EmptyLedger ==
    Len(events) = 0 =>
        /\ lastOp = "finalize_block" =>
              /\ ret_root = EmptyLedgerRoot
              /\ tree_height = 0
              /\ _calculate_compliance_level(events).num = 0
        /\ lastOp = "get_compliance_certificate" =>
              /\ cert.ledger_root = EmptyLedgerRoot
              /\ cert.total_events = 0
              /\ cert.compliance_level.num = 0
              /\ tree_height = 0

C12_Witness ==
    /\ Len(events) = 0
    /\ last_finalize.calls >= 1
    /\ lastOp = "get_compliance_certificate"
    /\ cert.ledger_root = last_finalize.root

\* the eleven fields of the canonical record
FixedFields ==
    {"event_id", "timestamp", "model_id", "input_hash", "output_hash",
     "compliance_status", "risk_level", "article_reference", "system_purpose",
     "deployment_context", "oversight_mechanism"}

DataStrings == {"user: calculate risk", "user: approve loan", "user: diagnose"}

\* values a field can be changed to
FieldValues(f) ==
    CASE f = "event_id" -> 1..(MaxEvents + 1)
      [] f = "timestamp" -> 0..(MaxClock + 1)
      [] f = "model_id" -> {"", "gpt-4", "claude-3", "gemini-pro"}
      [] f = "input_hash" -> {Truncate16(Sha256(StrTok(d))) : d \in DataStrings}
      [] f = "output_hash" -> {Truncate16(Sha256(StrTok(d))) : d \in DataStrings}
      [] f = "compliance_status" -> {"PENDING", "PASS", "FAIL", "WARNING"}
      [] f = "risk_level" -> {"HIGH_RISK", "MEDIUM_RISK", "LOW_RISK"}
      [] f = "article_reference" -> 12..15
      [] f = "system_purpose" -> {"", "credit scoring"}
      [] f = "deployment_context" -> {"", "production"}
      [] f = "oversight_mechanism" -> {NoneStr, "", "human-in-the-loop"}

\* the value of field f in the canonical record of e (an absent
\* oversight_mechanism counts as the empty string)
CanonicalValue(e, f) == IF f = "oversight_mechanism" /\ e[f] = NoneStr THEN "" ELSE e[f]

\* C13: a ledger whose event sequence differs from this one's in one fixed
\* field of one event has a different root than the one finalize_block returned.
C13_Sensitivity ==
    lastOp = "finalize_block" =>
        \A i \in 1..Len(events) : \A f \in FixedFields : \A v \in FieldValues(f) :
            LET other == [events EXCEPT ![i][f] = v]
            IN  CanonicalValue(other[i], f) # CanonicalValue(events[i], f)
                    => MerkleRootOf(EventHashes(other)) # ret_root

C13_Witness ==
    /\ lastOp = "finalize_block"
    /\ Len(events) = 3
    /\ ret_root = MerkleRootOf(EventHashes(events))

RECURSIVE CountPass(_)
CountPass(evs) ==
    IF evs = <<>>
    THEN 0
    ELSE (IF Head(evs).compliance_status = "PASS" THEN 1 ELSE 0) + CountPass(Tail(evs))

\* C16: the compliance score is 100 * (number of PASS events) / (number of
\* events), 0 for an empty ledger, and lies in [0, 100].
C16_ComplianceScore ==
    LET score == _calculate_compliance_level(events)
        n == Len(events)
    IN  /\ score.den > 0
        /\ 0 <= score.num /\ score.num <= 100 * score.den
        /\ n = 0 => score.num = 0
        /\ n > 0 => score.num * n = 100 * CountPass(events) * score.den
        /\ lastOp = "get_compliance_certificate" => cert.compliance_level = score

C16_Witness ==
    /\ lastOp = "get_compliance_certificate"
    /\ Len(events) = 3
    /\ CountPass(events) = 2
    /\ cert.compliance_level = [num |-> 200, den |-> 3]

\* C17: the certificate status is COMPLIANT exactly when there is an event and
\* 100 * PASS-count >= 80 * event-count, and REVIEW_REQUIRED otherwise.
C17_CertificateLaw ==
    lastOp = "get_compliance_certificate" =>
        LET n == Len(events)
            compliant == n >= 1 /\ 100 * CountPass(events) >= 80 * n
        IN  cert.status = IF compliant THEN "COMPLIANT" ELSE "REVIEW_REQUIRED"

C17_Witness ==
    /\ lastOp = "get_compliance_certificate"
    /\ Len(events) = 5
    /\ events[1].compliance_status = "PASS"
    /\ events[2].compliance_status = "PASS"
    /\ events[3].compliance_status = "WARNING"
    /\ events[4].compliance_status = "PASS"
    /\ events[5].compliance_status = "PASS"
    /\ cert.compliance_level = [num |-> 400, den |-> 5]
    /\ cert.status = "COMPLIANT"

\* C18: in a certificate total_events is the number of events appended so far
\* and articles_covered holds exactly the distinct article_reference values of
\* those events, each once.
C18_CertificateCounts ==
    lastOp = "get_compliance_certificate" =>
        LET covered == cert.articles_covered
        IN  /\ cert.total_events = Len(events)
            /\ cert.total_events = uuid_counter
            /\ {covered[k] : k \in 1..Len(covered)} =
                   {events[i].article_reference : i \in 1..Len(events)}
            /\ \A j, k \in 1..Len(covered) : covered[j] = covered[k] => j = k

C18_Witness ==
    /\ lastOp = "get_compliance_certificate"
    /\ Len(events) = 4
    /\ cert.total_events = 4
    /\ cert.articles_covered = <<13, 12>>


\* C14: record_compliance_event calls made concurrently are serialized: a
\* reader never finds the event list and the leaf list at different lengths,
\* and once every call has returned the leaves are the hashes of the events
\* in the same order, none lost.
C14_AppendsSerialized ==
    /\ lastOp \in {"finalize_block", "get_compliance_certificate", "generate_proof"}
          => Len(events) = Len(leaves)
    /\ PendingEvents = {} => leaves = EventHashes(events)

\* C15: record_compliance_event with an empty model_id fails with InvalidInput
\* and leaves events, leaves and root unchanged; with well-formed inputs it
\* does not fail and appends exactly one event.
C15_InvalidInputRejected ==
    [][\A req \in Requests \cup InvalidRequests : \A now \in 0..MaxClock :
          record_any_request(req, now) =>
              IF req.model_id = ""
              THEN error' = "InvalidInput" /\ UNCHANGED <<events, leaves, root>>
              ELSE error' = "" /\ Len(events') = Len(events) + 1]_vars


\* ---------------------------------------------------------------- event hashes
\* Article12Event objects built by a caller with any field values, each
\* appended to the events and added to the tree as lines 259-260 do.
BaseEvent ==
    [event_id |-> 1, timestamp |-> 0, model_id |-> "gpt-4",
     input_hash |-> Truncate16(Sha256(StrTok("user: calculate risk"))),
     output_hash |-> Truncate16(Sha256(StrTok("user: approve loan"))),
     compliance_status |-> "PASS", risk_level |-> "HIGH_RISK",
     article_reference |-> 12, system_purpose |-> "", deployment_context |-> "",
     oversight_mechanism |-> NoneStr, metadata |-> {}]

\* the base event, every change of one fixed field of it, and the same with
\* a metadata entry
GivenEvents ==
    LET plain == {[BaseEvent EXCEPT ![f] = v] : <<f, v>> \in
                    UNION {{<<g, w>> : w \in FieldValues(g)} : g \in FixedFields}}
    IN  plain \cup {[e EXCEPT !.metadata = {"note"}] :
                        e \in {x \in plain : x.event_id = 1 /\ x.model_id = "gpt-4"}}

add_given_event(e) ==
    /\ Len(events) < 2
    /\ events' = AppendEvent(events, e)
    /\ leaves' = add_event(leaves, e)
    /\ lastOp' = "add_event"
    /\ UNCHANGED <<serverVars, mpcVars, audit>>
    /\ UNCHANGED <<nodes, root, tree_height, uuid_counter, clock, ret_root, cert, proof,
                   verdict, tampered, error, last_finalize>>

NextHash == \E e \in GivenEvents : add_given_event(e)

SpecHash == Init /\ [][NextHash]_vars

\* e1 and e2 have the same canonical value in each of the eleven fixed fields
SameFixedFields(e1, e2) ==
    \A f \in FixedFields : CanonicalValue(e1, f) = CanonicalValue(e2, f)

\* C19: two events hash identically exactly when they are equal on the eleven
\* fixed fields, an absent oversight_mechanism counting as the empty string and
\* metadata not counting at all.
C19_HashOfFixedFields ==
    \A i \in 1..Len(leaves) : \A j \in 1..Len(leaves) :
        SameFixedFields(events[i], events[j]) <=> leaves[i] = leaves[j]

C19_Witness ==
    /\ Len(leaves) = 2
    /\ events[1].oversight_mechanism = NoneStr
    /\ events[2].oversight_mechanism = ""
    /\ events[1].metadata # events[2].metadata
    /\ leaves[1] = leaves[2]


\* ---------------------------------------------------------------- raw payloads
\* the payloads a caller can supply
Payloads ==
    {"user: calculate risk", "risk: 0.23", "user: approve loan", "decision: approved",
     "user: diagnose", "diagnosis: flu", "payload sharing a digest prefix"}

PayloadDigest(d) == Truncate16(Sha256(StrTok(d)))

\* the requests that differ from req at most in payloads of the same digests
SameDigestRequests(req) ==
    {[req EXCEPT !.input_data = i, !.output_data = o] : <<i, o>> \in
        {p \in Payloads \X Payloads :
            /\ PayloadDigest(p[1]) = PayloadDigest(req.input_data)
            /\ PayloadDigest(p[2]) = PayloadDigest(req.output_data)}}

\* C20: the event stored by record_compliance_event holds the truncated digests
\* of the supplied input_data and output_data, and a call with other payloads
\* of the same digests would have stored the same event, the same leaf and the
\* same exported events.
C20_OnlyDigestsStored ==
    [][\A req \in Requests : \A now \in 0..MaxClock :
          record_compliance_event(req, now) =>
              LET stored == events'[Len(events')]
              IN  /\ stored.input_hash = PayloadDigest(req.input_data)
                  /\ stored.output_hash = PayloadDigest(req.output_data)
                  /\ \A other \in SameDigestRequests(req) :
                        LET event == NewEvent(other, uuid_counter + 1, now)
                        IN  /\ event = stored
                            /\ AppendEvent(events, event) = events'
                            /\ add_event(leaves, event) = leaves'
                            /\ ExportedEvents(AppendEvent(events, event))
                                  = ExportedEvents(events')]_vars

\* an event was recorded whose input has a different payload of the same digest
C20_Witness ==
    /\ lastOp = "record_compliance_event"
    /\ Len(events) > 0
    /\ events[Len(events)].input_hash = PayloadDigest("payload sharing a digest prefix")
    /\ StrTok("payload sharing a digest prefix") # StrTok("user: calculate risk")
    /\ Len(leaves) = Len(events)


\* the levels that the while loop of _build_tree pairs, from the leaf level up
RECURSIVE PairedLevels(_)
PairedLevels(current_level) ==
    IF Len(current_level) > 1
    THEN <<current_level>> \o PairedLevels(NextLevel(current_level))
    ELSE <<>>

RECURSIVE Flatten(_)
Flatten(levels) == IF levels = <<>> THEN <<>> ELSE Head(levels) \o Flatten(Tail(levels))

\* C28: in the build of a non-empty ledger every level that is paired has an
\* even, power-of-two number of nodes (no node is paired with itself), the
\* node list has 2p - 1 nodes for p padded leaves, and the root is the hash of
\* the last node.
C28_LevelsEven ==
    (lastOp = "finalize_block" /\ Len(leaves) > 0) =>
        LET padded_leaves == _pad_to_power_of_two(leaves)
            p == Len(padded_leaves)
            levels == PairedLevels(padded_leaves)
        IN  /\ \A k \in 1..Len(levels) :
                  /\ Len(levels[k]) % 2 = 0
                  /\ Len(levels[k]) = Pow2(CeilLog2(Len(levels[k])))
            /\ SubSeq(nodes, 1, Len(Flatten(levels))) = Flatten(levels)
            /\ Len(nodes) = 2 * p - 1
            /\ root = nodes[Len(nodes)]
            /\ ret_root = root

C28_Witness ==
    /\ lastOp = "finalize_block"
    /\ Len(leaves) = 3
    /\ Len(nodes) = 7
    /\ Len(PairedLevels(_pad_to_power_of_two(leaves))) = 2

\* C29: the events and the leaves have the same length and each leaf is the
\* canonical hash of the event at the same position.
C29_LeavesMatchEvents ==
    /\ Len(events) = Len(leaves)
    /\ \A i \in 1..Len(events) : leaves[i] = compute_event_hash(events[i])

C29_Witness ==
    /\ Len(events) = 3
    /\ lastOp \in {"generate_proof", "get_compliance_certificate"}
    /\ \A i \in 1..3 : leaves[i] = compute_event_hash(events[i])
    /\ leaves[1] # leaves[2]


\* ---------------------------------------------------------------- the API
\* number of /api/v1/verify requests made for chain c
VerifyCount(c) == Cardinality({i \in 1..Len(verify_requests) : verify_requests[i] = c})

\* C21: a ledger is registered by the first /api/v1/verify request for its
\* chain_id and stays registered as the same ledger ever after; it holds one
\* event for each verify request made for its chain_id, none lost.
C21_RegistryKeepsLedgers ==
    /\ [](DOMAIN ledgers = {verify_requests[i] : i \in 1..Len(verify_requests)})
    /\ [](\A c \in DOMAIN ledgers : /\ Len(ledgers[c].events) = VerifyCount(c)
                                    /\ ledgers[c].chain_name = c)
    /\ [][\A c \in DOMAIN ledgers :
             /\ c \in DOMAIN ledgers'
             /\ IsPrefix(ledgers[c].events, ledgers'[c].events)
             /\ IsPrefix(ledgers[c].leaves, ledgers'[c].leaves)]_vars

\* two requests whose providers differ only in case went to one ledger
C21_Witness ==
    /\ lastOp = "verify_compliance"
    /\ verify_requests = <<"chain-openai", "chain-openai">>
    /\ DOMAIN ledgers = {"chain-openai"}
    /\ Len(ledgers["chain-openai"].events) = 2
    /\ ledgers["chain-openai"].events[1].system_purpose = "credit scoring"

\* C22: a /api/v1/verify request changes no ledger but the one registered
\* under its own chain_id.
C22_ChainsIndependent ==
    [][\A request \in VerifyRequests : \A now \in 0..MaxClock :
          verify_compliance(request, now) =>
              \A c \in DOMAIN ledgers \ {ChainIdOf(request.model_provider)} :
                  /\ c \in DOMAIN ledgers'
                  /\ ledgers'[c] = ledgers[c]]_vars

C22_Witness ==
    /\ lastOp = "verify_compliance"
    /\ verify_requests = <<"chain-anthropic", "chain-openai">>
    /\ DOMAIN ledgers = {"chain-anthropic", "chain-openai"}
    /\ Len(ledgers["chain-anthropic"].events) = 1
    /\ ledgers["chain-anthropic"].root # ledgers["chain-openai"].root

\* C23: a whistleblower report is accepted and appended to the red list when
\* the mode is SWORD or JUDGE; in every other mode it is rejected with an
\* error and the red list is unchanged.
C23_ReportsOnlyWhenExposing ==
    [][\A report \in WhistleblowerReports : \A now \in 0..MaxClock :
          submit_whistleblower_report(report, now) =>
              IF MODE \in {"SWORD", "JUDGE"}
              THEN error' = "" /\ Len(red_list') = Len(red_list) + 1
              ELSE error' # "" /\ red_list' = red_list]_vars

\* C24: GET /api/v1/red-list returns the red list when the mode is SWORD or
\* JUDGE; in every other mode it is refused and discloses no violation.
C24_RedListOnlyWhenExposing ==
    lastOp = "get_red_list" =>
        IF MODE \in {"SWORD", "JUDGE"}
        THEN error = "" /\ response.kind = "red_list" /\ response.violations = red_list
        ELSE error # "" /\ response.kind = "error"

\* C25: issue_judgment appends exactly one judgment when the mode is JUDGE; in
\* every other mode issue_judgment and get_judgments are refused and the
\* judgments are unchanged.
C25_JudgeModeOnly ==
    /\ [][\A request \in JudgeRulingRequests : \A now \in 0..MaxClock :
             issue_judgment(request, now) =>
                 IF MODE = "JUDGE"
                 THEN /\ error' = ""
                      /\ Len(judgments') = Len(judgments) + 1
                      /\ SubSeq(judgments', 1, Len(judgments)) = judgments
                      /\ judgments'[Len(judgments')].ruling = request.ruling
                 ELSE error' = "403" /\ judgments' = judgments]_vars
    /\ [][get_judgments =>
             /\ judgments' = judgments
             /\ IF MODE = "JUDGE"
                THEN error' = "" /\ response'.rulings = judgments
                ELSE error' = "403" /\ response'.kind = "error"]_vars

C25_Witness ==
    /\ MODE = "JUDGE"
    /\ lastOp = "issue_judgment"
    /\ error = ""
    /\ Len(judgments) = 1
    /\ response.kind = "judgment"

\* C26: a /api/v1/verify request in SHIELD mode leaves the red list unchanged;
\* in SWORD or JUDGE mode it appends exactly one violation if its
\* compliance_status is FAIL, whose evidence_hash is the leaf of the event just
\* recorded, and leaves the red list unchanged otherwise.
C26_ShieldIsPrivate ==
    [][\A request \in VerifyRequests : \A now \in 0..MaxClock :
          verify_compliance(request, now) =>
              LET ledger == ledgers'[ChainIdOf(request.model_provider)]
              IN  /\ MODE = "SHIELD" => red_list' = red_list
                  /\ MODE \in {"SWORD", "JUDGE"} =>
                        IF request.compliance_status = "FAIL"
                        THEN /\ Len(red_list') = Len(red_list) + 1
                             /\ SubSeq(red_list', 1, Len(red_list)) = red_list
                             /\ red_list'[Len(red_list')].evidence_hash
                                   = ledger.leaves[Len(ledger.leaves)]
                        ELSE red_list' = red_list]_vars

C26_Witness ==
    /\ MODE = "SWORD"
    /\ lastOp = "verify_compliance"
    /\ Len(red_list) = 1
    /\ "violation_id" \in DOMAIN response
    /\ red_list[1].evidence_hash = ledgers["chain-openai"].leaves[
                                       Len(ledgers["chain-openai"].leaves)]
    /\ Len(ledgers["chain-openai"].events) = 2

\* C30: the root_hash of a /api/v1/verify response is the Merkle root over all
\* events of its chain, the one just recorded included; a certificate then
\* fetched for the chain has that root as ledger_root and as total_events the
\* number of verify requests made for the chain.
C30_ApiRootIsCurrent ==
    /\ lastOp = "verify_compliance" =>
          response.root_hash = HalvesRoot(_pad_to_power_of_two(
                                   EventHashes(ledgers[response.chain_id].events)))
    /\ (lastOp = "get_certificate" /\ error = "") =>
          /\ response.ledger_root = HalvesRoot(_pad_to_power_of_two(
                                        EventHashes(ledgers[response.chain_name].events)))
          /\ response.total_events = VerifyCount(response.chain_name)

C30_Witness ==
    /\ lastOp = "get_certificate"
    /\ error = ""
    /\ response.total_events = 2
    /\ response.ledger_root = ledgers[response.chain_name].root


\* ---------------------------------------------------------------- MPC
OnlineIds == {mpc_nodes[k].node_id : k \in {j \in 1..Len(mpc_nodes) : IsOnline(mpc_nodes[j])}}

\* C27: simulate_verification returns VERIFIED exactly when at least threshold
\* online nodes report verified; with fewer than threshold nodes online it
\* returns FAILED with an insufficient-nodes reason; threshold_met, where the
\* result has it, agrees with the status, and verified_by holds only online nodes.
C27_Threshold ==
    [][\A simulated_results \in SimulatedResults :
          simulate_verification(simulated_results) =>
              LET reporting == {n \in OnlineIds : ReportedVerified(simulated_results, n)}
                  result == mpc_result'
              IN  /\ result.status \in {"VERIFIED", "FAILED"}
                  /\ result.status = "VERIFIED" <=> Cardinality(reporting) >= threshold
                  /\ Cardinality(OnlineIds) < threshold =>
                        /\ result.status = "FAILED"
                        /\ "reason" \in DOMAIN result
                        /\ result.reason.text = "Insufficient nodes"
                        /\ result.reason.active_nodes = Cardinality(OnlineIds)
                  /\ "threshold_met" \in DOMAIN result =>
                        result.threshold_met = (result.status = "VERIFIED")
                  /\ "threshold_met" \notin DOMAIN result => result.status = "FAILED"
                  /\ "verified_by" \in DOMAIN result =>
                        {result.verified_by[k] : k \in 1..Len(result.verified_by)}
                            = reporting]_vars

\* verified at the threshold exactly, with a third node offline
C27_Witness ==
    /\ lastOp = "simulate_verification"
    /\ mpc_result.status = "VERIFIED"
    /\ threshold = 2
    /\ Len(mpc_result.verified_by) = 2
    /\ Len(mpc_nodes) = 3
    /\ Cardinality(OnlineIds) = 2


\* ---------------------------------------------------------------- audit trail
\* C31: in every result of export_audit_trail the ledger's root is the
\* certificate's ledger_root, and the ledger's event_count, the certificate's
\* total_events and the number of events listed are one number.
C31_ExportConsistent ==
    lastOp = "export_audit_trail" =>
        /\ audit.ledger.root = audit.certificate.ledger_root
        /\ audit.ledger.event_count = audit.certificate.total_events
        /\ audit.certificate.total_events = Len(audit.events)


\* ---------------------------------------------------------------- leaf counts
\* events handed to MerkleTree.add_event directly; the same one may be added again
TreeEvents == {[BaseEvent EXCEPT !.event_id = k] : k \in 1..3}

tree_add_event(e) ==
    /\ Len(leaves) < MaxLeaves
    /\ leaves' = add_event(leaves, e)
    /\ lastOp' = "add_event"
    /\ UNCHANGED <<serverVars, mpcVars, audit>>
    /\ UNCHANGED <<events, nodes, root, tree_height, uuid_counter, clock, ret_root, cert,
                   proof, verdict, tampered, error, last_finalize>>

tree_build ==
    LET t == build(Tree)
    IN  /\ nodes' = t.nodes
        /\ root' = t.root
        /\ tree_height' = t.tree_height
        /\ ret_root' = t.root
        /\ lastOp' = "build"
        /\ UNCHANGED <<serverVars, mpcVars, audit>>
        /\ UNCHANGED <<events, leaves, uuid_counter, clock, cert, proof, verdict,
                       tampered, error, last_finalize>>

NextTree ==
    \/ \E e \in TreeEvents : tree_add_event(e)
    \/ tree_build

SpecTree == Init /\ [][NextTree]_vars

\* every leaf list add_event can produce within the bound
LeafLists == UNION {[1..n -> {compute_event_hash(e) : e \in TreeEvents}] : n \in 0..MaxLeaves}

\* b is a followed by copies of a's last leaf, and both pad to one length
ExtendedByLastLeaf(a, b) ==
    /\ 0 < Len(a)
    /\ Len(a) < Len(b)
    /\ IsPrefix(a, b)
    /\ \A k \in (Len(a) + 1)..Len(b) : b[k] = a[Len(a)]
    /\ SmallestPow2(Len(a)) = SmallestPow2(Len(b))

\* C32 as stated: after build, no leaf list of another length has the root
\* just built.
C32_RootCommitsToCount ==
    lastOp = "build" =>
        \A other \in LeafLists :
            Len(other) # Len(leaves) => MerkleRootOf(other) # ret_root

\* C32, amended: after build, a list of event hashes of another length has
\* the root just built exactly when one of the two lists is the other followed
\* by copies of its last leaf and both pad to the same power of two.
C32_SameRootIffSamePadding ==
    lastOp = "build" =>
        \A other \in LeafLists :
            Len(other) # Len(leaves) =>
                (MerkleRootOf(other) = ret_root
                    <=> (ExtendedByLastLeaf(leaves, other) \/ ExtendedByLastLeaf(other, leaves)))

\* three leaves built, and the four-leaf list repeating the last one has the same root
C32_Witness ==
    /\ lastOp = "build"
    /\ Len(leaves) = 3
    /\ leaves[3] # leaves[2]
    /\ MerkleRootOf(Append(leaves, leaves[3])) = ret_root


\* ---------------------------------------------------------------- reads
\* C33: GET /api/v1/certificate/{chain_id} and GET /api/v1/audit/{chain_id}
\* answer 404 and leave the registry as it was when chain_id is not
\* registered, and leave the events of a registered chain_id as they were.
C33_ReadsCreateNothing ==
    [][\A chain_id \in ChainIds :
          (get_certificate(chain_id) \/ get_audit_trail(chain_id)) =>
              IF chain_id \notin DOMAIN ledgers
              THEN /\ error' = "404"
                   /\ response'.kind = "error"
                   /\ response'.status_code = 404
                   /\ ledgers' = ledgers
              ELSE /\ error' = ""
                   /\ DOMAIN ledgers' = DOMAIN ledgers
                   /\ \A c \in DOMAIN ledgers :
                         /\ ledgers'[c].events = ledgers[c].events
                         /\ ledgers'[c].leaves = ledgers[c].leaves]_vars

\* an audit read of an unregistered chain_id was refused while another chain
\* is registered with an event
C33_WitnessNotFound ==
    /\ lastOp = "get_audit_trail"
    /\ error = "404"
    /\ response.kind = "error"
    /\ "chain-openai" \in DOMAIN ledgers
    /\ "chain-OpenAI" \notin DOMAIN ledgers

====
